---- MODULE Spec2Model ----
(***************************************************************************)
(* TradeDeskCLI: the `search` command of tradedeskcli.py.                  *)
(*                                                                         *)
(* The command resolves a company name to a ticker through the Yahoo       *)
(* search endpoint (lookup_ticker_by_name), fetches a price through        *)
(* yfinance (get_current_price) and prints a table or a JSON payload.      *)
(* The network is the environment: every response the code reads is drawn  *)
(* from a bounded set when the call is made, and the part of it the code   *)
(* has read is kept in the state next to the result.                       *)
(***************************************************************************)
EXTENDS Integers, Sequences, FiniteSets

\* ------------------------------------------------------------------ bounds
MaxPrice == 2      \* prices are 1..MaxPrice (0 is modelled separately)
MaxLen == 2        \* rows of a history frame
MaxQuotes == 2     \* entries of the "quotes" list of a search response

\* ------------------------------------------------------- Python values
\* A Python value is a record tagged by k; n carries a number, s a string.
PyNone == [k |-> "none", n |-> 0, s |-> ""]
PyNaN == [k |-> "nan", n |-> 0, s |-> ""]
PyInt(i) == [k |-> "int", n |-> i, s |-> ""]
PyFloat(x) == [k |-> "float", n |-> x, s |-> ""]
PyStr(str) == [k |-> "str", n |-> 0, s |-> str]
\* outcomes that are not values
Raised == [k |-> "raise", n |-> 0, s |-> ""]       \* the call raised
Missing == [k |-> "missing", n |-> 0, s |-> ""]    \* key not in the mapping
NotCalled == [k |-> "notcalled", n |-> 0, s |-> ""]
Nothing == [k |-> "nothing", n |-> 0, s |-> ""]    \* a step that fell through

\* Python truthiness of a value (bool(x)); nan is truthy, 0 / 0.0 / "" / None
\* are falsy.
Truthy(v) ==
    CASE v.k = "none" -> FALSE
      [] v.k = "int" -> v.n # 0
      [] v.k = "float" -> v.n # 0
      [] v.k = "nan" -> TRUE
      [] v.k = "str" -> v.s # ""
      [] OTHER -> FALSE

\* a or b
PyOr(a, b) == IF Truthy(a) THEN a ELSE b

\* float(v): an int becomes the float of the same magnitude, a float or nan
\* is returned as is, None raises TypeError.
Float(v) ==
    CASE v.k = "int" -> PyFloat(v.n)
      [] v.k = "float" -> v
      [] v.k = "nan" -> v
      [] OTHER -> Raised

\* ------------------------------------------------------------ resolver
\* The fields of a quote are whatever the JSON body holds: null, a string
\* (also one with console markup in it) or a number.
Symbols == {PyNone, PyStr(""), PyStr("MSFT"), PyInt(7)}
ShortNames == {PyNone, PyStr(""), PyStr("Microsoft"), PyStr("[/b]"), PyInt(7)}
LongNames == {PyNone, PyStr(""), PyStr("Microsoft Corporation")}

\* one entry of "quotes" (q.get(key) is None for an absent key)
Quotes == [symbol : Symbols, shortname : ShortNames, longname : LongNames]

RECURSIVE SeqsUpTo(_, _)
SeqsUpTo(S, n) ==
    IF n = 0 THEN {<<>>}
    ELSE LET shorter == SeqsUpTo(S, n - 1)
         IN shorter \cup {Append(q, e) : q \in {p \in shorter : Len(p) = n - 1}, e \in S}

Statuses == {200, 404, 500}

\* What requests.get / resp.json() can produce:
\*   transport  requests.get raises (connection error, timeout)
\*   malformed  resp.json() raises
\*   nondict    the body is JSON but not an object (data.get raises)
\*   noquotes   an object without the "quotes" key
\*   nullquotes "quotes": null
\*   quotes     "quotes": [...]
Bodies ==
    {[k |-> b, quotes |-> <<>>] : b \in {"malformed", "nondict", "noquotes", "nullquotes"}}
      \cup {[k |-> "quotes", quotes |-> qs] : qs \in SeqsUpTo(Quotes, MaxQuotes)}

Responses ==
    {[k |-> "transport", status |-> 0, body |-> [k |-> "malformed", quotes |-> <<>>]]}
      \cup {[k |-> "http", status |-> st, body |-> b] : st \in Statuses, b \in Bodies}

\* resp.raise_for_status(): raises for 4xx and 5xx
RaiseForStatus(status) == status >= 400 /\ status < 600

\* MatchOf with the long name preferred over the short one
MatchOfLongFirst(q) ==
    [k |-> "dict",
     symbol |-> q.symbol,
     name |-> PyOr(q.longname, PyOr(q.shortname, q.symbol))]

\* The dict built at lines 44-50 ("type", "exchange" and "score" are copied
\* through and never read by the command; they are left out).
MatchOf(q) ==
    [k |-> "dict",
     symbol |-> q.symbol,
     name |-> PyOr(q.shortname, PyOr(q.longname, q.symbol))]

NoMatch == [k |-> "none", symbol |-> PyNone, name |-> PyNone]

\* The body of the try block of lookup_ticker_by_name: the value returned,
\* or exc = TRUE where a statement raises.
LookupBody(resp) ==
    IF resp.k = "transport" THEN [ret |-> NoMatch, exc |-> TRUE]
    ELSE IF RaiseForStatus(resp.status) THEN [ret |-> NoMatch, exc |-> TRUE]
    ELSE IF resp.body.k \in {"malformed", "nondict"} THEN [ret |-> NoMatch, exc |-> TRUE]
    ELSE IF resp.body.quotes = <<>> THEN [ret |-> NoMatch, exc |-> FALSE]
    ELSE [ret |-> MatchOf(resp.body.quotes[1]), exc |-> FALSE]

\* except Exception: return None
LookupExcept(r) == IF r.exc THEN [ret |-> NoMatch, exc |-> FALSE] ELSE r

lookup_ticker_by_name(resp) == LookupExcept(LookupBody(resp))

\* The part of a response the resolver has read: its kind and quotes[0].
NoQuote == [symbol |-> Missing, shortname |-> Missing, longname |-> Missing]
SeenOf(resp) ==
    IF resp.k = "transport" THEN [k |-> "transport", q |-> NoQuote]
    ELSE IF RaiseForStatus(resp.status) THEN [k |-> "httperror", q |-> NoQuote]
    ELSE IF resp.body.k # "quotes" THEN [k |-> resp.body.k, q |-> NoQuote]
    ELSE IF resp.body.quotes = <<>> THEN [k |-> "empty", q |-> NoQuote]
    ELSE [k |-> "match", q |-> resp.body.quotes[1]]
NoSearch == [k |-> "notcalled", q |-> NoQuote]

\* ------------------------------------------------------- price fetcher
Prices == 1..MaxPrice

\* fi["last_price"] as the code can find it: the access raises, the key is
\* absent, or it holds None, a zero, nan or a price.
FastInfos ==
    {Raised, Missing, PyNone, PyInt(0), PyFloat(0), PyNaN}
      \cup {PyInt(p) : p \in Prices} \cup {PyFloat(p) : p \in Prices}

\* the Close column of a frame: float64 values, nan where missing
Closes == {PyNaN, PyFloat(0)} \cup {PyFloat(p) : p \in Prices}

\* t.history(...): raises, or returns a frame of 0..MaxLen rows
Histories ==
    {[k |-> "raise", rows |-> <<>>]}
      \cup {[k |-> "frame", rows |-> r] : r \in SeqsUpTo(Closes, MaxLen)}
HistNotCalled == [k |-> "notcalled", rows |-> <<>>]

\* yf.Ticker(ticker): returns the handle or raises
Ctors == {"ok", "raise"}

\* hist["Close"].dropna()
DropNa(rows) == SelectSeq(rows, LAMBDA c : c.k # "nan")

\* Lines 63-68: the fast_info step.  An exception is caught by the inner
\* handler and the step falls through.
FastStep(fi) ==
    IF fi.k = "raise" THEN Nothing
    ELSE IF fi.k # "missing" /\ Truthy(fi)
         THEN (IF Float(fi).k = "raise" THEN Nothing ELSE Float(fi))
         ELSE Nothing

\* HistStep taking the first non-missing close (.iloc[0]) instead of the last
HistStepFirst(h) ==
    IF h.k = "raise" THEN Raised
    ELSE IF h.rows = <<>> THEN Nothing
    ELSE LET closes == DropNa(h.rows)
         IN IF closes = <<>> THEN Raised ELSE Float(closes[1])

\* Lines 71-73 and 76-78: a history step.  A raising request raises; an
\* empty frame falls through; otherwise the last element of the non-missing
\* closes is converted, and .iloc[-1] raises IndexError when none is left.
HistStep(h) ==
    IF h.k = "raise" THEN Raised
    ELSE IF h.rows = <<>> THEN Nothing
    ELSE LET closes == DropNa(h.rows)
         IN IF closes = <<>> THEN Raised ELSE Float(closes[Len(closes)])

\* Lines 61-78, the body of the outer try: out is the value returned, Raised
\* where a statement raises, Nothing where control reaches the end; calls
\* lists the Quote Source operations invoked, in order.
PriceBody(ctor, fi, h1m, h1d) ==
    IF ctor = "raise" THEN [out |-> Raised, calls |-> <<>>]
    ELSE LET f == FastStep(fi) IN
      IF f.k # "nothing" THEN [out |-> f, calls |-> <<"fast_info">>]
      ELSE LET m == HistStep(h1m) IN
        IF m.k # "nothing" THEN [out |-> m, calls |-> <<"fast_info", "history_1m">>]
        ELSE [out |-> HistStep(h1d),
              calls |-> <<"fast_info", "history_1m", "history_1d">>]

\* PriceExcept without the outer handler: the exception leaves the function
PriceExceptLeaky(out) ==
    IF out.k = "raise" THEN [price |-> PyNone, exc |-> TRUE]
    ELSE IF out.k = "nothing" THEN [price |-> PyNone, exc |-> FALSE]
    ELSE [price |-> out, exc |-> FALSE]

\* Lines 79-81: except Exception: pass; return None
PriceExcept(out) ==
    IF out.k = "raise" THEN [price |-> PyNone, exc |-> FALSE]
    ELSE IF out.k = "nothing" THEN [price |-> PyNone, exc |-> FALSE]
    ELSE [price |-> out, exc |-> FALSE]

get_current_price(ctor, fi, h1m, h1d) ==
    LET b == PriceBody(ctor, fi, h1m, h1d)
        r == PriceExcept(b.out)
    IN [price |-> r.price, exc |-> r.exc, calls |-> b.calls]

\* ------------------------------------------------------- orchestration
Tickers == {PyNone, PyStr(""), PyStr("AAPL"), PyStr("[/x]")}
Names == {PyNone, PyStr(""), PyStr("Apple"), PyStr("[/red]"), PyStr("a[b]c")}

\* MissingInput testing "is None" instead of truthiness
MissingInputNoneOnly(t, nm) == t.k = "none" /\ nm.k = "none"

\* Line 97: if not ticker and not name
MissingInput(t, nm) == ~Truthy(t) /\ ~Truthy(nm)

\* NeedsResolve that resolves whenever a name is given
NeedsResolveNameOnly(t, nm) == Truthy(nm)

\* Line 102: if name and not ticker
NeedsResolve(t, nm) == Truthy(nm) /\ ~Truthy(t)

\* ResolveFailed without the test of the symbol
ResolveFailedNoneOnly(res) == res.k = "none"

\* Line 104: if not resolved or not resolved.get("symbol")
ResolveFailed(res) == res.k = "none" \/ ~Truthy(res.symbol)

\* Lines 110-112: the display name
AssetName(res, t, nm) ==
    IF res.k = "dict" /\ Truthy(res.name) THEN res.name
    ELSE IF ~Truthy(nm) THEN t ELSE nm

\* Payload with success = bool(price)
PayloadTruthySuccess(t, an, p) ==
    [k |-> "json", ticker |-> t, name |-> an, price |-> p, success |-> Truthy(p)]

\* Lines 115-120: the JSON payload
Payload(t, an, p) ==
    [k |-> "json", ticker |-> t, name |-> an, price |-> p, success |-> p.k # "none"]

\* f"{price:,.4f}"
Fixed4(p) == IF p.k = "nan" THEN PyStr("nan") ELSE [k |-> "fixed4", n |-> p.n, s |-> ""]

\* Lines 129-132: the arguments of table.add_row
RowArgs(t, an, p) ==
    [name |-> an, ticker |-> PyOr(t, PyStr("-")),
     cell |-> IF p.k = "none" THEN PyStr("[red]N/A[/red]") ELSE Fixed4(p)]

\* table.add_row accepts strings (and None); any other cell, such as a number
\* that came out of the search answer, raises NotRenderableError.
AddRowRaises(row) == row.name.k \notin {"str", "none"} \/ row.ticker.k \notin {"str", "none"}

\* console.print parses every string cell as console markup.  Of the strings
\* of this model: a closing tag with no open tag raises MarkupError, a tag
\* is taken out of the text as a style, anything else is printed as it is.
UnmatchedClosingTag == {"[/x]", "[/red]", "[/b]"}
MarkupRaises(v) == v.k = "str" /\ v.s \in UnmatchedClosingTag
RenderMarkup(v) ==
    IF v.k # "str" THEN v
    ELSE IF v.s = "a[b]c" THEN PyStr("ac")
    ELSE IF v.s = "[red]N/A[/red]" THEN PyStr("N/A")
    ELSE v

\* Line 134: console.print(table) raises on the first cell it cannot parse
PrintRaises(row) == MarkupRaises(row.name) \/ MarkupRaises(row.ticker)

\* Lines 124-134: the table as printed
TableRow(t, an, p) ==
    LET row == RowArgs(t, an, p)
    IN [k |-> "table", name |-> RenderMarkup(row.name),
        ticker |-> RenderMarkup(row.ticker), cell |-> RenderMarkup(row.cell)]

NoOutput == [k |-> "none"]

\* exit codes: typer.Exit(code=2), typer.Exit(code=1), typer.Exit() / return
ExitUsage == 2
ExitNoResult == 1
ExitOk == 0

VARIABLES
    pc,           \* "start", "fetch", "present", "exited"
    ticker_arg,   \* --ticker as given
    name,         \* --name as given
    json_out,     \* --json
    ticker,       \* the local ticker (reassigned at line 107)
    resolved,     \* result of lookup_ticker_by_name, NoMatch before
    price,        \* result of get_current_price
    asset_name,
    output,       \* what was echoed / printed
    exit_code,    \* PyNone while running
    uncaught,     \* "" or the call whose exception left search_command
    calls,        \* network operations invoked, in order
    fetched,      \* the arguments of the get_current_price calls, in order
    seenSearch,   \* what the Search Source answered (the part read)
    seenCtor, seenFi, seen1m, seen1d   \* what the Quote Source answered

vars == <<pc, ticker_arg, name, json_out, ticker, resolved, price, asset_name,
          output, exit_code, uncaught, calls, fetched,
          seenSearch, seenCtor, seenFi, seen1m, seen1d>>

inputs == <<ticker_arg, name, json_out>>
seenQuote == <<seenCtor, seenFi, seen1m, seen1d>>

Init ==
    /\ pc = "start"
    /\ ticker_arg \in Tickers
    /\ name \in Names
    /\ json_out \in BOOLEAN
    /\ ticker = ticker_arg
    /\ resolved = NoMatch
    /\ price = PyNone
    /\ asset_name = PyNone
    /\ output = NoOutput
    /\ exit_code = PyNone
    /\ uncaught = ""
    /\ calls = <<>>
    /\ fetched = <<>>
    /\ seenSearch = NoSearch
    /\ seenCtor = "notcalled"
    /\ seenFi = NotCalled
    /\ seen1m = HistNotCalled
    /\ seen1d = HistNotCalled

Contains(sq, e) == \E i \in 1..Len(sq) : sq[i] = e

\* Lines 97-99: neither --ticker nor --name
UsageExit ==
    /\ pc = "start"
    /\ MissingInput(ticker, name)
    /\ pc' = "exited"
    /\ exit_code' = PyInt(ExitUsage)
    /\ UNCHANGED <<inputs, ticker, resolved, price, asset_name, output, uncaught,
                   calls, fetched, seenSearch, seenQuote>>

\* Lines 101-107: resolve the name
Resolve ==
    /\ pc = "start"
    /\ ~MissingInput(ticker, name)
    /\ NeedsResolve(ticker, name)
    /\ \E resp \in Responses :
         LET r == lookup_ticker_by_name(resp) IN
           /\ calls' = Append(calls, "search")
           /\ seenSearch' = SeenOf(resp)
           /\ IF r.exc
              THEN /\ uncaught' = "lookup_ticker_by_name"   \* traceback, status 1
                   /\ pc' = "exited"
                   /\ exit_code' = PyInt(1)
                   /\ UNCHANGED <<resolved, ticker>>
              ELSE /\ resolved' = r.ret
                   /\ uncaught' = uncaught
                   /\ IF ResolveFailed(r.ret)
                      THEN /\ pc' = "exited"
                           /\ exit_code' = PyInt(ExitNoResult)
                           /\ ticker' = ticker
                      ELSE /\ pc' = "fetch"
                           /\ exit_code' = exit_code
                           /\ ticker' = r.ret.symbol
    /\ UNCHANGED <<inputs, price, asset_name, output, fetched, seenQuote>>

\* The Quote Source answers the operations that are invoked: whether
\* get_current_price invokes op, given the answers so far.
Invokes(op, ctor, fi, h1m) ==
    Contains(get_current_price(ctor, fi, h1m, HistNotCalled).calls, op)

\* Lines 109-112: fetch the price and choose the display name
Fetch ==
    /\ \/ pc = "fetch"
       \/ pc = "start" /\ ~MissingInput(ticker, name) /\ ~NeedsResolve(ticker, name)
    /\ \E ctor \in Ctors :
       \E fi \in (IF Invokes("fast_info", ctor, NotCalled, HistNotCalled)
                  THEN FastInfos ELSE {NotCalled}) :
       \E h1m \in (IF Invokes("history_1m", ctor, fi, HistNotCalled)
                   THEN Histories ELSE {HistNotCalled}) :
       \E h1d \in (IF Invokes("history_1d", ctor, fi, h1m)
                   THEN Histories ELSE {HistNotCalled}) :
         LET r == get_current_price(ctor, fi, h1m, h1d) IN
           /\ fetched' = Append(fetched, ticker)
           /\ calls' = calls \o r.calls
           /\ seenCtor' = ctor
           /\ seenFi' = fi
           /\ seen1m' = h1m
           /\ seen1d' = h1d
           /\ IF r.exc
              THEN /\ uncaught' = "get_current_price"   \* traceback, status 1
                   /\ pc' = "exited"
                   /\ exit_code' = PyInt(1)
                   /\ UNCHANGED <<price, asset_name>>
              ELSE /\ price' = r.price
                   /\ asset_name' = AssetName(resolved, ticker, name)
                   /\ pc' = "present"
                   /\ UNCHANGED <<uncaught, exit_code>>
    /\ UNCHANGED <<inputs, ticker, resolved, output, seenSearch>>

\* Lines 114-122: --json
EmitJson ==
    /\ pc = "present"
    /\ json_out
    /\ output' = Payload(ticker, asset_name, price)
    /\ pc' = "exited"
    /\ exit_code' = PyInt(ExitOk)
    /\ UNCHANGED <<inputs, ticker, resolved, price, asset_name, uncaught,
                   calls, fetched, seenSearch, seenQuote>>

\* Lines 124-134: the table.  An exception of add_row or console.print is
\* not handled anywhere: it leaves search_command, nothing is printed and
\* the process ends with a traceback and status 1.
EmitTable ==
    /\ pc = "present"
    /\ ~json_out
    /\ LET row == RowArgs(ticker, asset_name, price) IN
         IF AddRowRaises(row)
         THEN /\ uncaught' = "add_row"
              /\ exit_code' = PyInt(1)
              /\ output' = output
         ELSE IF PrintRaises(row)
         THEN /\ uncaught' = "console.print"
              /\ exit_code' = PyInt(1)
              /\ output' = output
         ELSE /\ output' = TableRow(ticker, asset_name, price)
              /\ exit_code' = PyInt(ExitOk)
              /\ uncaught' = uncaught
    /\ pc' = "exited"
    /\ UNCHANGED <<inputs, ticker, resolved, price, asset_name,
                   calls, fetched, seenSearch, seenQuote>>

Next == UsageExit \/ Resolve \/ Fetch \/ EmitJson \/ EmitTable

Spec == Init /\ [][Next]_vars

TypeOK ==
    /\ pc \in {"start", "fetch", "present", "exited"}
    /\ exit_code \in {PyNone, PyInt(0), PyInt(1), PyInt(2)}
    /\ Len(fetched) <= 1

\* ---------------------------------------------------------- properties
\* get_current_price has returned
PriceReturned == fetched # <<>> /\ uncaught # "get_current_price"

\* the fast price field was read and is present and non-zero / non-null
FastYields == seenFi.k \in {"int", "float", "nan"} /\ ~(seenFi.k # "nan" /\ seenFi.n = 0)

\* the fast price field was read and is absent, zero or null, or reading it raised
FastYieldsNothing ==
    \/ seenFi.k \in {"raise", "missing", "none"}
    \/ seenFi.k \in {"int", "float"} /\ seenFi.n = 0

HasClose(h) == h.k = "frame" /\ \E i \in 1..Len(h.rows) : h.rows[i].k # "nan"

\* the last non-missing close of a frame that has one
LastClose(h) ==
    LET i == CHOOSE j \in 1..Len(h.rows) :
                 /\ h.rows[j].k # "nan"
                 /\ \A l \in (j + 1)..Len(h.rows) : h.rows[l].k = "nan"
    IN h.rows[i]

EmptyOrRaising(h) == h.k = "raise" \/ (h.k = "frame" /\ h.rows = <<>>)

Count(sq, e) == Cardinality({i \in 1..Len(sq) : sq[i] = e})

\* C1: an exception at any of the three steps counts as that step producing
\* nothing and the next step is still attempted; in particular when the fast
\* field yields nothing and the minute-history request raises, the
\* daily-history request is made and its last non-missing close is returned.
C1_ExceptionFallsThrough ==
    PriceReturned =>
      /\ (seenFi.k = "raise" => Contains(calls, "history_1m"))
      /\ (FastYieldsNothing /\ seen1m.k = "raise" =>
            /\ Contains(calls, "history_1d")
            /\ (HasClose(seen1d) => price = LastClose(seen1d)))

\* C2: the price is that of the first step that yields one and no later step
\* is invoked: a present, non-zero fast field is returned without any history
\* call; otherwise the last non-missing minute close is returned without the
\* daily-history call.
C2_FirstYieldWins ==
    PriceReturned =>
      /\ (FastYields =>
            /\ price.k = (IF seenFi.k = "nan" THEN "nan" ELSE "float")
            /\ price.n = seenFi.n
            /\ ~Contains(calls, "history_1m")
            /\ ~Contains(calls, "history_1d"))
      /\ (FastYieldsNothing /\ HasClose(seen1m) =>
            /\ price = LastClose(seen1m)
            /\ ~Contains(calls, "history_1d"))

C2_Witness ==
    /\ PriceReturned
    /\ seenFi = PyInt(0)
    /\ seen1m = [k |-> "frame", rows |-> <<PyFloat(1), PyNaN>>]
    /\ price = PyFloat(1)
    /\ calls = <<"fast_info", "history_1m">>

\* C3: when every source that is asked is empty or raises, get_current_price
\* returns None, and no exception leaves lookup_ticker_by_name or
\* get_current_price whatever the network does.
C3_NeverRaises ==
    /\ uncaught \notin {"lookup_ticker_by_name", "get_current_price"}
    /\ (seenSearch.k \in {"transport", "httperror", "malformed", "nondict"} =>
          resolved = NoMatch)
    /\ (/\ fetched # <<>>
        /\ seenCtor = "raise" \/ FastYieldsNothing
        /\ seen1m.k = "notcalled" \/ EmptyOrRaising(seen1m)
        /\ seen1d.k = "notcalled" \/ EmptyOrRaising(seen1d)
        => price = PyNone /\ pc # "start")

C3_Witness ==
    /\ seenFi.k = "raise"
    /\ seen1m = [k |-> "frame", rows |-> <<>>]
    /\ seen1d.k = "raise"
    /\ price = PyNone
    /\ pc = "exited"
    /\ exit_code = PyInt(ExitOk)
    /\ uncaught = ""

\* the Search Source was asked and gave no usable symbol
NoUsableSymbol ==
    \/ seenSearch.k \in {"transport", "httperror", "malformed", "nondict",
                         "noquotes", "nullquotes", "empty"}
    \/ seenSearch.k = "match" /\ seenSearch.q.symbol \in {PyNone, PyStr("")}

\* C4: a name without a ticker whose resolution gives no usable symbol ends
\* the run with exit code 1 and the price is never fetched.
C4_NoMatchExitsOne ==
    NoUsableSymbol =>
      /\ pc = "exited"
      /\ exit_code = PyInt(1)
      /\ fetched = <<>>
      /\ calls = <<"search">>
      /\ output = NoOutput

C4_Witness ==
    /\ seenSearch.k = "match"
    /\ seenSearch.q.symbol = PyStr("")
    /\ seenSearch.q.shortname = PyStr("Microsoft")
    /\ exit_code = PyInt(1)

\* C5: with neither a ticker nor a name (absent or empty) the run exits with
\* code 2 and no network operation is invoked.
C5_UsageExitsTwo ==
    (ticker_arg \in {PyNone, PyStr("")} /\ name \in {PyNone, PyStr("")}) =>
      /\ pc \in {"start", "exited"}
      /\ (pc = "exited" => exit_code = PyInt(2))
      /\ calls = <<>>
      /\ fetched = <<>>

C5_Witness ==
    /\ ticker_arg = PyStr("")
    /\ name = PyStr("")
    /\ pc = "exited"
    /\ exit_code = PyInt(2)

\* resolution completed with a usable symbol, or a ticker was supplied
ResolutionDone ==
    \/ Truthy(ticker_arg)
    \/ seenSearch.k = "match" /\ Truthy(seenSearch.q.symbol)

\* C6: once resolution completes or is not needed, the price is fetched
\* exactly once and the run ends with exit code 0 in both output modes,
\* whether or not a price was obtained, and with no exception.
C6_FetchOnceExitZero ==
    ResolutionDone =>
      /\ Len(fetched) <= 1
      /\ (pc = "exited" =>
            /\ Len(fetched) = 1
            /\ exit_code = PyInt(0)
            /\ uncaught = ""
            /\ output.k = (IF json_out THEN "json" ELSE "table"))

\* C7: in every JSON payload the price is non-null iff success is true.
C7_PriceIffSuccess ==
    output.k = "json" => (output.price # PyNone <=> output.success)

C7_Witness ==
    /\ output.k = "json"
    /\ output.price = PyFloat(0)
    /\ output.success

\* the name the result must show
ExpectedName ==
    IF seenSearch.k = "match"
    THEN (IF seenSearch.q.shortname \notin {PyNone, PyStr("")} THEN seenSearch.q.shortname
          ELSE IF seenSearch.q.longname \notin {PyNone, PyStr("")} THEN seenSearch.q.longname
          ELSE seenSearch.q.symbol)
    ELSE IF name \notin {PyNone, PyStr("")} THEN name
    ELSE ticker_arg

\* C8: the display name is the resolver's match name (short name, else long
\* name, else symbol) when the resolver ran and succeeded, else the supplied
\* name, else the ticker; a ticker-only run with price p emits ticker = t,
\* name = t, price = p, success = true.
C8_DisplayName ==
    PriceReturned =>
      /\ asset_name = ExpectedName
      /\ (output.k = "json" => output.name = ExpectedName)
      /\ (output.k = "json" /\ name \in {PyNone, PyStr("")} /\ price # PyNone =>
            output = [k |-> "json", ticker |-> ticker_arg, name |-> ticker_arg,
                      price |-> price, success |-> TRUE])

C8_Witness ==
    /\ output.k = "json"
    /\ seenSearch.k = "match"
    /\ seenSearch.q.shortname = PyStr("")
    /\ seenSearch.q.longname = PyStr("Microsoft Corporation")
    /\ output.name = PyStr("Microsoft Corporation")
    /\ output.ticker = PyStr("MSFT")

\* C9: a non-empty minute history whose closes are all missing counts as
\* yielding nothing: the daily history is requested and its last non-missing
\* close is returned.
C9_AllMissingFallsThrough ==
    (/\ PriceReturned
     /\ FastYieldsNothing
     /\ seen1m.k = "frame" /\ seen1m.rows # <<>> /\ ~HasClose(seen1m))
    => /\ Contains(calls, "history_1d")
       /\ (HasClose(seen1d) => price = LastClose(seen1d))

\* C10: with both a ticker and a name the resolver is not invoked, the price
\* is fetched for the supplied ticker and the supplied name is displayed; the
\* resolver runs at most once, and only for a name without a ticker.
C10_TickerWinsOverName ==
    /\ (Truthy(ticker_arg) /\ Truthy(name) =>
          /\ ~Contains(calls, "search")
          /\ ticker = ticker_arg
          /\ (fetched # <<>> => fetched = <<ticker_arg>>)
          /\ (fetched # <<>> => asset_name = name)
          /\ (output.k = "json" => output.name = name /\ output.ticker = ticker_arg))
    /\ Count(calls, "search") <= 1
    /\ (Contains(calls, "search") => Truthy(name) /\ ~Truthy(ticker_arg))

C10_Witness ==
    /\ ticker_arg = PyStr("AAPL")
    /\ name = PyStr("Apple")
    /\ pc = "exited"
    /\ fetched = <<PyStr("AAPL")>>
    /\ output.k = "table"
    /\ output.name = PyStr("Apple")
    /\ calls # <<>>

====
